---- MODULE Spec2Model ----
(***************************************************************************)
(* Model of jooseproots/geojson_tools:                                     *)
(*   GeoJSONLocalizer  (src/geojson_coordinate_localizer.py)               *)
(*   GeoJSONProjector  (src/geojson_euclidean_projection.py)               *)
(*                                                                         *)
(* Python values are tagged records [t, n, s]: a number is N(v) (field n), *)
(* a list is L(<<...>>) (field s), None is NoneVal, so that                *)
(* isinstance(coords[0], (float, int)) is a test on the tag t.  A call     *)
(* that can raise yields Ok(value) or Err(exception).                      *)
(* Localizer coordinates are integers; projector coordinates are exact     *)
(* rationals <<numerator, denominator>> in lowest terms.                   *)
(***************************************************************************)
EXTENDS Integers, Sequences, FiniteSets, TLC

\* localizer
VARIABLES features, has_geodata, offset_coords, offset_alias, offset_arg,
          original, stage, calls, op, outcome

locVars == <<features, has_geodata, offset_coords, offset_alias, offset_arg,
             original, stage, calls, op, outcome>>

\* projector
VARIABLES proj_geodata, source_polygons, projected_polygons, rotate_deg,
          scale_factor, utm_polygons, center, returned, p_op, p_outcome

projVars == <<proj_geodata, source_polygons, projected_polygons, rotate_deg,
              scale_factor, utm_polygons, center, returned, p_op, p_outcome>>

\* zone selection
VARIABLES average_longitude, zone, zone_status

zoneVars == <<average_longitude, zone, zone_status>>

vars == <<locVars, projVars, zoneVars>>

----------------------------------------------------------------------------
\* Bounds

MaxFeatures == 2
MaxOffset == 1
MaxCalls == 2
MaxProjFeatures == 2
LongitudeGrid == 2

----------------------------------------------------------------------------
\* Python values

N(v) == [t |-> "n", n |-> v, s |-> <<>>]
L(q) == [t |-> "l", n |-> 0, s |-> q]
NoneVal == [t |-> "none", n |-> 0, s |-> <<>>]

Ok(v) == [ok |-> TRUE, v |-> v, err |-> "ok"]
Err(e) == [ok |-> FALSE, v |-> NoneVal, err |-> e]

\* coords[0] (0-based index i on a Python value)
Index(x, i) ==
    IF x.t # "l" THEN Err("TypeError")
    ELSE IF Len(x.s) < i + 1 THEN Err("IndexError")
    ELSE Ok(x.s[i + 1])

\* truthiness of a Python value, as tested by "not x"
Truthy(x) ==
    CASE x.t = "none" -> FALSE
      [] x.t = "n" -> x.n # 0
      [] OTHER -> Len(x.s) > 0

\* a list comprehension over calls that may raise: the first exception in
\* iteration order, else the list of the results
Collect(rs) ==
    IF \E i \in 1..Len(rs) : ~rs[i].ok
    THEN Err(rs[CHOOSE i \in 1..Len(rs) :
                   ~rs[i].ok /\ \A j \in 1..(i - 1) : rs[j].ok].err)
    ELSE Ok(L([i \in 1..Len(rs) |-> rs[i].v]))

\* x_offset, y_offset = offset_coords
Unpack(off) ==
    IF off.t # "l" THEN Err("TypeError")
    ELSE IF Len(off.s) # 2 THEN Err("ValueError")
    ELSE Ok(off)

----------------------------------------------------------------------------
\* Exact rational arithmetic for the projector's floats: <<n, d>>, d > 0,
\* in lowest terms

Abs(a) == IF a < 0 THEN -a ELSE a

RECURSIVE GCD(_, _)
GCD(a, b) == IF b = 0 THEN a ELSE GCD(b, a % b)

Norm(n, d) ==
    LET g == GCD(Abs(n), Abs(d))
        sg == IF d < 0 THEN -1 ELSE 1
    IN <<(sg * n) \div g, (sg * d) \div g>>

RInt(n) == <<n, 1>>
RAdd(a, b) == Norm(a[1] * b[2] + b[1] * a[2], a[2] * b[2])
RSub(a, b) == Norm(a[1] * b[2] - b[1] * a[2], a[2] * b[2])
RMul(a, b) == Norm(a[1] * b[1], a[2] * b[2])
RDiv(a, b) == Norm(a[1] * b[2], a[2] * b[1])

\* sum(...) of a sequence of rationals
RECURSIVE RSum(_)
RSum(q) == IF Len(q) = 0 THEN RInt(0) ELSE RAdd(q[1], RSum(Tail(q)))

\* int(x): truncation toward zero
IntOf(a) == IF a[1] >= 0 THEN a[1] \div a[2] ELSE -((-a[1]) \div a[2])

RECURSIVE Flatten(_)
Flatten(qq) == IF Len(qq) = 0 THEN <<>> ELSE qq[1] \o Flatten(Tail(qq))

----------------------------------------------------------------------------
\* The state of an object that a specification does not exercise

NoPolygons == [none |-> TRUE, polygons |-> <<>>]

Polygons(q) == [none |-> FALSE, polygons |-> q]

InitLocIdle ==
    /\ features = <<>>
    /\ has_geodata = FALSE
    /\ offset_coords = NoneVal
    /\ offset_alias = 0
    /\ offset_arg = NoneVal
    /\ original = <<>>
    /\ stage = "fresh"
    /\ calls = 0
    /\ op = "none"
    /\ outcome = "ok"

\* utm_polygons, center and returned hold the argument, the centroid and the
\* return value of the last call of project or
\* transform_to_localized_coordinate_system; any other call leaves none
NoLocals ==
    /\ utm_polygons = <<>>
    /\ center = <<RInt(0), RInt(0)>>
    /\ returned = <<>>

ClearLocals ==
    /\ utm_polygons' = <<>>
    /\ center' = <<RInt(0), RInt(0)>>
    /\ returned' = <<>>

InitProjIdle ==
    /\ proj_geodata = <<>>
    /\ source_polygons = <<>>
    /\ projected_polygons = NoPolygons
    /\ rotate_deg = 0
    /\ scale_factor = RInt(1)
    /\ NoLocals
    /\ p_op = "none"
    /\ p_outcome = "ok"

InitZoneIdle ==
    /\ average_longitude = RInt(0)
    /\ zone = 0
    /\ zone_status = "none"

----------------------------------------------------------------------------
\* GeoJSONLocalizer: the recursive coordinate transforms

\* the leaf written with both coordinates shifted by the x offset
LocalizeLeafSameOffset(coords, x, y) ==
    L(<<N(coords.s[1].n - x.n), N(coords.s[2].n - x.n)>>)

LocalizeLeaf(coords, x, y) ==
    L(<<N(coords.s[1].n - x.n), N(coords.s[2].n - y.n)>>)

RECURSIVE localize_coordinates(_, _, _)
localize_coordinates(coords, x, y) ==
    IF coords.t # "l" THEN Err("TypeError")
    ELSE IF Len(coords.s) = 0 THEN Err("IndexError")
    ELSE IF coords.s[1].t = "n"
    THEN IF Len(coords.s) < 2 THEN Err("IndexError")
         ELSE IF coords.s[2].t # "n" \/ x.t # "n" \/ y.t # "n"
              THEN Err("TypeError")
              ELSE Ok(LocalizeLeaf(coords, x, y))
    ELSE Collect([i \in 1..Len(coords.s) |->
                     localize_coordinates(coords.s[i], x, y)])

RestoreLeaf(coords, x, y) ==
    L(<<N(coords.s[1].n + x.n), N(coords.s[2].n + y.n)>>)

RECURSIVE restore_localized_coordinates(_, _, _)
restore_localized_coordinates(coords, x, y) ==
    IF coords.t # "l" THEN Err("TypeError")
    ELSE IF Len(coords.s) = 0 THEN Err("IndexError")
    ELSE IF coords.s[1].t = "n"
    THEN IF Len(coords.s) < 2 THEN Err("IndexError")
         ELSE IF coords.s[2].t # "n" \/ x.t # "n" \/ y.t # "n"
              THEN Err("TypeError")
              ELSE Ok(RestoreLeaf(coords, x, y))
    ELSE Collect([i \in 1..Len(coords.s) |->
                     restore_localized_coordinates(coords.s[i], x, y)])

\* The loop "for feature in geodata['features']" assigning each feature's
\* coordinates as soon as they are computed: rs[i] is the result for
\* feature i; the features before the first exception are rewritten, the
\* loop ends at the exception.
Processed(rs) ==
    IF \E i \in 1..Len(rs) : ~rs[i].ok
    THEN (CHOOSE i \in 1..Len(rs) :
             ~rs[i].ok /\ \A j \in 1..(i - 1) : rs[j].ok) - 1
    ELSE Len(rs)

RewriteInPlace(feats, rs) ==
    [i \in 1..Len(feats) |->
        IF i <= Processed(rs)
        THEN [feats[i] EXCEPT !.coordinates = rs[i].v]
        ELSE feats[i]]

LoopStatus(rs) ==
    IF Processed(rs) = Len(rs) THEN "ok" ELSE rs[Processed(rs) + 1].err

anonymize_polygons(feats, off) ==
    IF ~Unpack(off).ok
    THEN [status |-> Unpack(off).err, features |-> feats, done |-> 0]
    ELSE LET rs == [i \in 1..Len(feats) |->
                       localize_coordinates(feats[i].coordinates,
                                            off.s[1], off.s[2])]
         IN [status |-> LoopStatus(rs),
             features |-> RewriteInPlace(feats, rs),
             done |-> Processed(rs)]

restore_polygons(feats, off) ==
    IF ~Unpack(off).ok
    THEN [status |-> Unpack(off).err, features |-> feats, done |-> 0]
    ELSE LET rs == [i \in 1..Len(feats) |->
                       restore_localized_coordinates(feats[i].coordinates,
                                                     off.s[1], off.s[2])]
         IN [status |-> LoopStatus(rs),
             features |-> RewriteInPlace(feats, rs),
             done |-> Processed(rs)]

----------------------------------------------------------------------------
\* GeoJSONLocalizer: the reference point

\* coords[0][0] of a Polygon, coords[0][0][0] of a MultiPolygon
FirstVertex(f) ==
    LET a == Index(f.coordinates, 0)
        b == IF a.ok THEN Index(a.v, 0) ELSE a
        c == IF b.ok THEN Index(b.v, 0) ELSE b
    IN IF f.type = "Polygon" THEN b ELSE c

Eligible(f) == f.type \in {"Polygon", "MultiPolygon"}

FirstEligible(feats) ==
    IF \E i \in 1..Len(feats) : Eligible(feats[i])
    THEN CHOOSE i \in 1..Len(feats) :
            Eligible(feats[i]) /\ \A j \in 1..(i - 1) : ~Eligible(feats[j])
    ELSE 0

ScanIndex(feats) == FirstEligible(feats)

_calculate_offset_coords(feats) ==
    IF ScanIndex(feats) = 0 THEN Ok(NoneVal)
    ELSE FirstVertex(feats[ScanIndex(feats)])

\* the same loop writing the vertices in place
OffsetAfterRewriteInPlace(off, alias, r) ==
    IF alias # 0 /\ alias <= r.done
    THEN FirstVertex(r.features[alias]).v
    ELSE off

\* Lines 41 and 44 build new lists and line 62 rebinds the feature to them:
\* the list object that offset_coords refers to (a vertex of feature
\* `alias`, 0 when it belongs to no feature) is never written.
OffsetAfterRewrite(off, alias, r) == off

AliasAfterRewrite(alias, r) == IF alias # 0 /\ alias <= r.done THEN 0 ELSE alias

----------------------------------------------------------------------------
\* Inputs: geometries, collections, offset vectors

P(x, y) == L(<<N(x), N(y)>>)

PolygonA ==
    [type |-> "Polygon",
     coordinates |-> L(<<L(<<P(3, 1), P(4, 1), P(4, 2), P(3, 1)>>)>>)]

\* an exterior ring and a hole
PolygonB ==
    [type |-> "Polygon",
     coordinates |-> L(<<L(<<P(0, 0), P(2, 0), P(0, 2), P(0, 0)>>),
                         L(<<P(1, 1)>>)>>)]

MultiPolygonA ==
    [type |-> "MultiPolygon",
     coordinates |-> L(<<L(<<L(<<P(1, 2), P(5, 2), P(5, 3)>>)>>),
                         L(<<L(<<P(0, 1)>>)>>)>>)]

PointA == [type |-> "Point", coordinates |-> P(2, 1)]

LineStringA == [type |-> "LineString", coordinates |-> L(<<P(0, 0), P(1, 2)>>)]

\* malformed: an empty coordinate array
EmptyPolygon == [type |-> "Polygon", coordinates |-> L(<<>>)]

\* malformed: a leaf missing a coordinate
ShortLeafPolygon ==
    [type |-> "Polygon", coordinates |-> L(<<L(<<P(1, 2), L(<<N(3)>>)>>)>>)]

\* malformed: a number beside the vertices of a ring
MixedPolygon ==
    [type |-> "Polygon", coordinates |-> L(<<L(<<P(2, 2), N(5)>>)>>)]

\* leaves [lon, lat, altitude]
AltitudePolygon ==
    [type |-> "Polygon",
     coordinates |-> L(<<L(<<L(<<N(1), N(2), N(7)>>),
                             L(<<N(0), N(1), N(7)>>)>>)>>)]

Geometries ==
    {PolygonA, PolygonB, MultiPolygonA, PointA, LineStringA, EmptyPolygon,
     ShortLeafPolygon, MixedPolygon, AltitudePolygon}

\* the geometries of the collections handed to the localizer object
LoadGeometries ==
    {PolygonA, MultiPolygonA, PointA, EmptyPolygon, AltitudePolygon}

RECURSIVE SeqsUpTo(_, _)
SeqsUpTo(S, n) ==
    IF n = 0 THEN {<<>>}
    ELSE LET shorter == SeqsUpTo(S, n - 1)
         IN shorter \cup {Append(s, x) : s \in {q \in shorter : Len(q) = n - 1},
                                         x \in S}

Collections == SeqsUpTo(Geometries, MaxFeatures)

LoadCollections == SeqsUpTo(LoadGeometries, MaxFeatures)

Offsets == {P(x, y) : x \in 0..MaxOffset, y \in 0..MaxOffset}

\* the tuples handed to set_custom_offset_coords
CustomOffsets == {P(0, 0), P(2, 1)}

----------------------------------------------------------------------------
\* GeoJSONLocalizer as an object: __init__, set_new_geodata,
\* set_custom_offset_coords, localize_geojson, restore_geojson

\* GeoJSONLocalizer() and GeoJSONLocalizer(geodata); a constructor that
\* raises leaves no object behind
InitLoc ==
    /\ offset_arg = NoneVal
    /\ stage = "fresh"
    /\ calls = 0
    /\ op = "__init__"
    /\ outcome = "ok"
    /\ \/ /\ has_geodata = FALSE
          /\ features = <<>>
          /\ original = <<>>
          /\ offset_coords = NoneVal
          /\ offset_alias = 0
       \/ \E c \in LoadCollections :
             /\ _calculate_offset_coords(c).ok
             /\ has_geodata = TRUE
             /\ features = c
             /\ original = c
             /\ offset_coords = _calculate_offset_coords(c).v
             /\ offset_alias = ScanIndex(c)

\* self.geodata is assigned before _calculate_offset_coords can raise
set_new_geodata(c) ==
    /\ has_geodata' = TRUE
    /\ features' = c
    /\ original' = c
    /\ stage' = "fresh"
    /\ calls' = 0
    /\ op' = "set_new_geodata"
    /\ IF _calculate_offset_coords(c).ok
       THEN /\ offset_coords' = _calculate_offset_coords(c).v
            /\ offset_alias' = ScanIndex(c)
            /\ outcome' = "ok"
       ELSE /\ UNCHANGED <<offset_coords, offset_alias>>
            /\ outcome' = _calculate_offset_coords(c).err
    /\ UNCHANGED offset_arg

\* explored before the first call that rewrites the collection
set_custom_offset_coords(o) ==
    /\ calls = 0
    /\ offset_coords' = o
    /\ offset_alias' = 0
    /\ stage' = IF stage = "fresh" THEN "fresh" ELSE "other"
    /\ op' = "set_custom_offset_coords"
    /\ outcome' = "ok"
    /\ UNCHANGED <<features, has_geodata, original, calls, offset_arg>>

StageAfter(r, from, to) ==
    IF r.status # "ok" THEN "failed"
    ELSE IF stage = from THEN to ELSE "other"

localize_geojson ==
    /\ calls < MaxCalls
    /\ op' = "localize_geojson"
    /\ UNCHANGED <<has_geodata, original, offset_arg>>
    /\ IF ~has_geodata \/ ~Truthy(offset_coords)
       THEN /\ outcome' = "ValueError"
            /\ UNCHANGED <<features, offset_coords, offset_alias, stage, calls>>
       ELSE LET r == anonymize_polygons(features, offset_coords)
            IN /\ features' = r.features
               /\ offset_coords' = OffsetAfterRewrite(offset_coords, offset_alias, r)
               /\ offset_alias' = AliasAfterRewrite(offset_alias, r)
               /\ outcome' = r.status
               /\ stage' = StageAfter(r, "fresh", "localized")
               /\ calls' = calls + 1

\* restore_geojson(anonymized_data) on the collection localize_geojson returned
restore_geojson ==
    /\ calls < MaxCalls
    /\ has_geodata
    /\ op' = "restore_geojson"
    /\ UNCHANGED <<has_geodata, original, offset_arg>>
    /\ IF ~Truthy(offset_coords)
       THEN /\ outcome' = "ValueError"
            /\ UNCHANGED <<features, offset_coords, offset_alias, stage, calls>>
       ELSE LET r == restore_polygons(features, offset_coords)
            IN /\ features' = r.features
               /\ offset_coords' = OffsetAfterRewrite(offset_coords, offset_alias, r)
               /\ offset_alias' = AliasAfterRewrite(offset_alias, r)
               /\ outcome' = r.status
               /\ stage' = StageAfter(r, "localized", "restored")
               /\ calls' = calls + 1

NextLoc ==
    \/ \E c \in LoadCollections : set_new_geodata(c)
    \/ \E o \in CustomOffsets : set_custom_offset_coords(o)
    \/ localize_geojson
    \/ restore_geojson

Init == InitLoc /\ InitProjIdle /\ InitZoneIdle

Next == NextLoc /\ UNCHANGED <<projVars, zoneVars>>

Spec == Init /\ [][Next]_vars

----------------------------------------------------------------------------
\* anonymize_polygons and restore_polygons called on a collection c with an
\* offset vector o

InitFn ==
    /\ InitProjIdle
    /\ InitZoneIdle
    /\ has_geodata = FALSE
    /\ offset_coords = NoneVal
    /\ offset_alias = 0
    /\ stage = "fresh"
    /\ calls = 0
    /\ op = "none"
    /\ outcome = "ok"
    /\ features \in Collections
    /\ original = features
    /\ offset_arg \in Offsets

CallAnonymizePolygons ==
    /\ calls < MaxCalls
    /\ LET r == anonymize_polygons(features, offset_arg)
       IN /\ features' = r.features
          /\ outcome' = r.status
          /\ stage' = StageAfter(r, "fresh", "localized")
    /\ calls' = calls + 1
    /\ op' = "anonymize_polygons"
    /\ UNCHANGED <<has_geodata, offset_coords, offset_alias, offset_arg, original>>

CallRestorePolygons ==
    /\ calls < MaxCalls
    /\ LET r == restore_polygons(features, offset_arg)
       IN /\ features' = r.features
          /\ outcome' = r.status
          /\ stage' = StageAfter(r, "localized", "restored")
    /\ calls' = calls + 1
    /\ op' = "restore_polygons"
    /\ UNCHANGED <<has_geodata, offset_coords, offset_alias, offset_arg, original>>

NextFn ==
    /\ CallAnonymizePolygons \/ CallRestorePolygons
    /\ UNCHANGED <<projVars, zoneVars>>

SpecFn == InitFn /\ [][NextFn]_vars

----------------------------------------------------------------------------
\* shapely geometry: a polygon is a sequence of rings (the exterior first,
\* then the holes), a ring a sequence of points <<x, y>>

\* a LinearRing is closed: the first point is repeated at the end when the
\* input does not do so itself
CloseRing(r) == IF r[1] = r[Len(r)] THEN r ELSE Append(r, r[1])

\* shapely.geometry.shape(feature["geometry"]) of a Polygon
shape(g) ==
    [i \in 1..Len(g.coordinates.s) |->
        CloseRing([j \in 1..Len(g.coordinates.s[i].s) |->
                      <<RInt(g.coordinates.s[i].s[j].s[1].n),
                        RInt(g.coordinates.s[i].s[j].s[2].n)>>])]

\* polygon.exterior.coords
ExteriorCoords(geom) == geom[1]

\* twice the signed area of a ring, and the sum of (x_i + x_i+1) * cross_i
Cross(r, i) == RSub(RMul(r[i][1], r[i + 1][2]), RMul(r[i + 1][1], r[i][2]))

Area2(r) == RSum([i \in 1..(Len(r) - 1) |-> Cross(r, i)])

MomentX(r) ==
    RSum([i \in 1..(Len(r) - 1) |->
             RMul(RAdd(r[i][1], r[i + 1][1]), Cross(r, i))])

RAbs(a) == <<Abs(a[1]), a[2]>>

Sign(a) == IF a[1] < 0 THEN RInt(-1) ELSE RInt(1)

\* geometry.centroid.x: the area-weighted centroid, holes counted negative
CentroidX(geom) ==
    LET area == [i \in 1..Len(geom) |->
                    IF i = 1 THEN RAbs(Area2(geom[i]))
                    ELSE RSub(RInt(0), RAbs(Area2(geom[i])))]
        moment == [i \in 1..Len(geom) |->
                      RMul(IF i = 1 THEN Sign(Area2(geom[i]))
                           ELSE RSub(RInt(0), Sign(Area2(geom[i]))),
                           MomentX(geom[i]))]
    IN RDiv(RSum(moment), RMul(RInt(3), RSum(area)))

\* cos and sin of a multiple of 90 degrees (shapely.affinity.rotate snaps
\* values below 2.5e-16 to 0, so these are exact)
Cos(deg) == CASE deg % 360 = 0 -> 1 [] deg % 360 = 180 -> -1 [] OTHER -> 0
Sin(deg) == CASE deg % 360 = 90 -> 1 [] deg % 360 = 270 -> -1 [] OTHER -> 0

\* shapely.affinity.translate(geometry, xoff, yoff)
Translate(geom, xoff, yoff) ==
    LET F(p) == <<RAdd(p[1], xoff), RAdd(p[2], yoff)>>
    IN [i \in 1..Len(geom) |-> [j \in 1..Len(geom[i]) |-> F(geom[i][j])]]

\* shapely.affinity.rotate(geometry, deg, origin=(0, 0))
Rotate(geom, deg) ==
    LET F(p) == <<RSub(RMul(RInt(Cos(deg)), p[1]), RMul(RInt(Sin(deg)), p[2])),
                  RAdd(RMul(RInt(Sin(deg)), p[1]), RMul(RInt(Cos(deg)), p[2]))>>
    IN [i \in 1..Len(geom) |-> [j \in 1..Len(geom[i]) |-> F(geom[i][j])]]

\* a scale call that passes xfact only (yfact keeps its default, 1.0)
ScaleXOnly(geom, fact) ==
    LET F(p) == <<RMul(fact, p[1]), p[2]>>
    IN [i \in 1..Len(geom) |-> [j \in 1..Len(geom[i]) |-> F(geom[i][j])]]

\* shapely.affinity.scale(geometry, xfact=f, yfact=f, origin=(0, 0))
Scale(geom, fact) ==
    LET F(p) == <<RMul(fact, p[1]), RMul(fact, p[2])>>
    IN [i \in 1..Len(geom) |-> [j \in 1..Len(geom[i]) |-> F(geom[i][j])]]

----------------------------------------------------------------------------
\* GeoJSONProjector

\* the features in the reverse of the collection's order
SourcePolygonsReversed(feats) ==
    LET src == SelectSeq(feats, LAMBDA f : f.geometry.type = "Polygon")
    IN [i \in 1..Len(src) |-> src[Len(src) + 1 - i]]

_get_source_polygons(feats) ==
    SelectSeq(feats, LAMBDA f : f.geometry.type = "Polygon")

\* int((average_longitude + 180) / 6) + 1
ZoneNumber(avg) ==
    IntOf(RDiv(RAdd(avg, RInt(180)), RInt(6))) + 1

AverageLongitude(src) ==
    RDiv(RSum([i \in 1..Len(src) |-> CentroidX(shape(src[i].geometry))]),
         RInt(Len(src)))

\* The geodetic transform is an external provider (pyproj); it is stood in
\* for by a linear map about the zone's central meridian, 6 * zone - 183,
\* with a false easting.  PROJ rejects a zone outside 1..60.
ProviderAccepts(z) == z >= 1 /\ z <= 60

TransformationToUTM(z, p) ==
    <<RAdd(RInt(500), RMul(RInt(100), RSub(p[1], RInt(6 * z - 183)))),
      RMul(RInt(100), p[2])>>

\* the list comprehension of project_to_UTM, with the transformation of
\* zone z
TransformGeometryToUTM(geom, z) ==
    [i \in 1..Len(geom) |->
        [j \in 1..Len(geom[i]) |-> TransformationToUTM(z, geom[i][j])]]

ProjectedPolygons(src, z) ==
    [i \in 1..Len(src) |->
        [geometry |-> TransformGeometryToUTM(shape(src[i].geometry), z),
         properties |-> src[i].properties]]

\* _get_transformation_to_UTM, then the comprehension
TransformWithZone(src, z) ==
    IF ~ProviderAccepts(z)
    THEN [status |-> "CRSError", polygons |-> <<>>]
    ELSE [status |-> "ok", polygons |-> ProjectedPolygons(src, z)]

project_to_UTM(src) ==
    IF Len(src) = 0
    THEN [status |-> "ValueError", polygons |-> <<>>]
    ELSE TransformWithZone(src, ZoneNumber(AverageLongitude(src)))

_get_centroid_coordinates(polygons) ==
    LET all_coordinates ==
            Flatten([i \in 1..Len(polygons) |->
                        ExteriorCoords(polygons[i].geometry)])
        n == Len(all_coordinates)
    IN <<RDiv(RSum([i \in 1..n |-> all_coordinates[i][1]]), RInt(n)),
         RDiv(RSum([i \in 1..n |-> all_coordinates[i][2]]), RInt(n))>>

\* the body of the loop of transform_to_localized_coordinate_system
TransformGeometry(geometry, xoff, yoff, deg, fact) ==
    LET recentred == Translate(geometry, xoff, yoff)
        rotated == IF deg # 0 THEN Rotate(recentred, deg) ELSE recentred
    IN IF fact # RInt(1) THEN Scale(rotated, fact) ELSE rotated

TransformAbout(polygons, c, deg, fact) ==
    [i \in 1..Len(polygons) |->
        [geometry |-> TransformGeometry(polygons[i].geometry,
                                        RSub(RInt(0), c[1]), RSub(RInt(0), c[2]),
                                        deg, fact),
         properties |-> polygons[i].properties]]

transform_to_localized_coordinate_system(polygons, deg, fact) ==
    TransformAbout(polygons, _get_centroid_coordinates(polygons), deg, fact)

----------------------------------------------------------------------------
\* Inputs of the projector

UnitSquare ==
    [geometry |->
         [type |-> "Polygon",
          coordinates |-> L(<<L(<<P(0, 0), P(1, 0), P(1, 1), P(0, 1)>>)>>)],
     properties |-> "a"]

\* a closed exterior ring and a hole
TriangleWithHole ==
    [geometry |->
         [type |-> "Polygon",
          coordinates |->
              L(<<L(<<P(12, 0), P(24, 0), P(12, 12), P(12, 0)>>),
                  L(<<P(14, 2), P(14, 4), P(16, 2), P(14, 2)>>)>>)],
     properties |-> "b"]

MultiPolygonFeature == [geometry |-> MultiPolygonA, properties |-> "c"]

PointFeature == [geometry |-> PointA, properties |-> "d"]

ProjFeatures ==
    {UnitSquare, TriangleWithHole, MultiPolygonFeature, PointFeature}

ProjCollections == SeqsUpTo(ProjFeatures, MaxProjFeatures)

Rotations == {0, 90, 180}

Scales == {RInt(1), RInt(2)}

----------------------------------------------------------------------------
\* GeoJSONProjector as an object

InitProj ==
    /\ proj_geodata \in ProjCollections
    /\ source_polygons = _get_source_polygons(proj_geodata)
    /\ projected_polygons = NoPolygons
    /\ rotate_deg \in Rotations
    /\ scale_factor \in Scales
    /\ NoLocals
    /\ p_op = "__init__"
    /\ p_outcome = "ok"
    /\ InitLocIdle
    /\ InitZoneIdle

\* what set_new_geodata leaves in projected_polygons
ProjectedKept(previous) == previous

ProjectedAfterSetNewGeodata(previous) == NoPolygons

Projector_set_new_geodata(c) ==
    /\ proj_geodata' = c
    /\ source_polygons' = _get_source_polygons(c)
    /\ projected_polygons' = ProjectedAfterSetNewGeodata(projected_polygons)
    /\ p_op' = "set_new_geodata"
    /\ p_outcome' = "ok"
    /\ ClearLocals
    /\ UNCHANGED <<rotate_deg, scale_factor>>
    /\ UNCHANGED <<locVars, zoneVars>>

project ==
    /\ p_op' = "project"
    /\ \E utm \in {project_to_UTM(source_polygons)} :
          IF utm.status # "ok"
          THEN /\ p_outcome' = utm.status
               /\ ClearLocals
               /\ UNCHANGED projected_polygons
          ELSE \E transformed_polygons \in
                      {transform_to_localized_coordinate_system(
                           utm.polygons, rotate_deg, scale_factor)} :
                  /\ p_outcome' = "ok"
                  /\ utm_polygons' = utm.polygons
                  /\ center' = _get_centroid_coordinates(utm.polygons)
                  /\ projected_polygons' = Polygons(transformed_polygons)
                  /\ returned' = transformed_polygons
    /\ UNCHANGED <<proj_geodata, source_polygons, rotate_deg, scale_factor>>
    /\ UNCHANGED <<locVars, zoneVars>>

\* transform_to_localized_coordinate_system called on planar polygons: the
\* shapes of the source polygons, untransformed
CallTransform ==
    /\ p_op' = "transform_to_localized_coordinate_system"
    /\ \E polygons \in {[i \in 1..Len(source_polygons) |->
                           [geometry |-> shape(source_polygons[i].geometry),
                            properties |-> source_polygons[i].properties]]} :
          IF Len(polygons) = 0
          THEN /\ p_outcome' = "ValueError"
               /\ ClearLocals
          ELSE /\ p_outcome' = "ok"
               /\ utm_polygons' = polygons
               /\ center' = _get_centroid_coordinates(polygons)
               /\ returned' = transform_to_localized_coordinate_system(
                                  polygons, rotate_deg, scale_factor)
    /\ UNCHANGED <<proj_geodata, source_polygons, projected_polygons,
                   rotate_deg, scale_factor>>
    /\ UNCHANGED <<locVars, zoneVars>>

plot ==
    /\ p_op' = "plot"
    /\ p_outcome' = IF projected_polygons.none THEN "ValueError" ELSE "ok"
    /\ ClearLocals
    /\ UNCHANGED <<proj_geodata, source_polygons, projected_polygons,
                   rotate_deg, scale_factor>>
    /\ UNCHANGED <<locVars, zoneVars>>

cast_to_geojson ==
    /\ p_op' = "cast_to_geojson"
    /\ p_outcome' = IF projected_polygons.none THEN "ValueError" ELSE "ok"
    /\ ClearLocals
    /\ UNCHANGED <<proj_geodata, source_polygons, projected_polygons,
                   rotate_deg, scale_factor>>
    /\ UNCHANGED <<locVars, zoneVars>>

NextProj ==
    \/ \E c \in ProjCollections : Projector_set_new_geodata(c)
    \/ project
    \/ CallTransform
    \/ plot
    \/ cast_to_geojson

SpecProj == InitProj /\ [][NextProj]_vars

----------------------------------------------------------------------------
\* Zone selection on an average centroid longitude in [-180, 180], on a
\* grid of 1 / LongitudeGrid degrees

Longitudes ==
    {Norm(n, LongitudeGrid) : n \in (-180 * LongitudeGrid)..(180 * LongitudeGrid)}

InitZone ==
    /\ average_longitude \in Longitudes
    /\ zone = 0
    /\ zone_status = "none"
    /\ InitLocIdle
    /\ InitProjIdle

\* lines 35-41 of _get_transformation_to_UTM: the zone is computed and
\* handed to the provider
SelectZone ==
    /\ zone_status = "none"
    /\ zone' = ZoneNumber(average_longitude)
    /\ zone_status' = IF ProviderAccepts(ZoneNumber(average_longitude))
                      THEN "ok" ELSE "CRSError"
    /\ UNCHANGED average_longitude
    /\ UNCHANGED <<locVars, projVars>>

NextZone == SelectZone

SpecZone == InitZone /\ [][NextZone]_vars


----------------------------------------------------------------------------
\* Properties of the localizer

\* a coordinate array of the given nesting depth whose leaves are pairs of
\* numbers and whose arrays are not empty
RECURSIVE WellFormedAt(_, _)
WellFormedAt(x, depth) ==
    /\ x.t = "l"
    /\ Len(x.s) > 0
    /\ IF depth = 1
       THEN Len(x.s) = 2 /\ \A i \in 1..2 : x.s[i].t = "n"
       ELSE \A i \in 1..Len(x.s) : WellFormedAt(x.s[i], depth - 1)

WellFormedGeometry(f) ==
    \/ f.type = "Polygon" /\ WellFormedAt(f.coordinates, 3)
    \/ f.type = "MultiPolygon" /\ WellFormedAt(f.coordinates, 4)

AllWellFormed(c) == \A i \in 1..Len(c) : WellFormedGeometry(c[i])

\* an empty array, or a leaf missing a coordinate, somewhere in x
RECURSIVE Malformed(_)
Malformed(x) ==
    /\ x.t = "l"
    /\ \/ Len(x.s) = 0
       \/ Len(x.s) = 1 /\ x.s[1].t = "n"
       \/ \E i \in 1..Len(x.s) : Malformed(x.s[i])

WellFormedThenMalformed(c) ==
    \E i, j \in 1..Len(c) :
        /\ i < j
        /\ WellFormedGeometry(c[i])
        /\ c[j].type = "Polygon"
        /\ Malformed(c[j].coordinates)

\* the nesting of x with every number replaced by 0: its depth and the
\* number of elements at every level
RECURSIVE Nesting(_)
Nesting(x) ==
    IF x.t = "l" THEN L([i \in 1..Len(x.s) |-> Nesting(x.s[i])]) ELSE N(0)

\* every leaf of x is a pair
RECURSIVE PairLeaves(_)
PairLeaves(x) ==
    /\ x.t = "l"
    /\ IF Len(x.s) > 0 /\ x.s[1].t = "n"
       THEN Len(x.s) = 2
       ELSE \A i \in 1..Len(x.s) : PairLeaves(x.s[i])

\* C1: for a collection of well-formed Polygon and MultiPolygon features and
\* an offset vector o, anonymize_polygons(c, o) and restore_polygons(., o)
\* both succeed and restore_polygons(anonymize_polygons(c, o), o) has the
\* coordinates of c, feature by feature and leaf by leaf.
C1_RoundTrip ==
    AllWellFormed(original) =>
        /\ outcome = "ok"
        /\ stage = "restored" => features = original

C1_Witness ==
    /\ stage = "restored"
    /\ op = "restore_polygons"
    /\ original = <<PolygonB, MultiPolygonA>>
    /\ offset_arg = P(0, 1)

\* C2: when a collection holds a well-formed polygon followed by a polygon
\* with a malformed coordinate array, anonymize_polygons fails and the
\* coordinates of every feature are what they were before the call.
C2_FailFastNoPartialOutput ==
    (op = "anonymize_polygons" /\ calls = 1 /\ WellFormedThenMalformed(original))
        => (outcome # "ok" /\ features = original)

\* C3: a coordinate array accepted by localize_coordinates or
\* restore_localized_coordinates comes back with the same nesting depth and
\* the same number of elements at every level, leaves included.
C3_ShapePreserved ==
    (calls = 1 /\ outcome = "ok") =>
        \A i \in 1..Len(features) :
            Nesting(features[i].coordinates) = Nesting(original[i].coordinates)

\* the reference point the specification describes
RefIndex(c) ==
    IF \E i \in 1..Len(c) : c[i].type \in {"Polygon", "MultiPolygon"}
    THEN CHOOSE i \in 1..Len(c) :
            /\ c[i].type \in {"Polygon", "MultiPolygon"}
            /\ \A j \in 1..(i - 1) : c[j].type \notin {"Polygon", "MultiPolygon"}
    ELSE 0

HasRefVertex(f) ==
    IF f.type = "Polygon" THEN WellFormedAt(f.coordinates, 3)
    ELSE WellFormedAt(f.coordinates, 4)

RefVertex(f) ==
    IF f.type = "Polygon" THEN f.coordinates.s[1].s[1]
    ELSE f.coordinates.s[1].s[1].s[1]

\* C7: after a collection is loaded, the offset is the first vertex of the
\* first ring of the first Polygon feature, or of the first ring of the
\* first polygon of the first MultiPolygon feature, whichever feature comes
\* first; when the collection has no such feature, loading fails with an
\* error.
C7_ReferencePoint ==
    (has_geodata /\ op \in {"__init__", "set_new_geodata"}) =>
        IF RefIndex(features) = 0
        THEN outcome # "ok"
        ELSE HasRefVertex(features[RefIndex(features)]) =>
                /\ outcome = "ok"
                /\ offset_coords = RefVertex(features[RefIndex(features)])

----------------------------------------------------------------------------
\* Properties of the projector

\* the stages after recentering in the swapped order: scale about the
\* origin, then rotate about the origin
SwappedGeometry(geometry, xoff, yoff, deg, fact) ==
    LET recentred == Translate(geometry, xoff, yoff)
        scaled == IF fact # RInt(1) THEN Scale(recentred, fact) ELSE recentred
    IN IF deg # 0 THEN Rotate(scaled, deg) ELSE scaled

SwappedOrder(polygons, c, deg, fact) ==
    [i \in 1..Len(polygons) |->
        [geometry |-> SwappedGeometry(polygons[i].geometry,
                                      RSub(RInt(0), c[1]), RSub(RInt(0), c[2]),
                                      deg, fact),
         properties |-> polygons[i].properties]]

TwoPolygonsRotatedAndScaled ==
    /\ p_op \in {"project", "transform_to_localized_coordinate_system"}
    /\ p_outcome = "ok"
    /\ Len(utm_polygons) = 2
    /\ rotate_deg # 0
    /\ scale_factor # RInt(1)

\* C4 as stated: for a two-polygon collection with a rotation angle other
\* than 0 and a scale factor other than 1.0, scaling and then rotating the
\* recentred polygons gives a result different from the pipeline's (rotate,
\* then scale).
C4_SwappedOrderDiffers ==
    TwoPolygonsRotatedAndScaled =>
        SwappedOrder(utm_polygons, center, rotate_deg, scale_factor) # returned

\* C4 as amended: for a two-polygon collection with a rotation angle other
\* than 0 and a scale factor other than 1.0, scaling and then rotating the
\* recentred polygons gives the same result as the pipeline's (rotate, then
\* scale): a uniform scaling about the origin commutes with a rotation
\* about the origin.
C4_SwappedOrderSame ==
    TwoPolygonsRotatedAndScaled =>
        SwappedOrder(utm_polygons, center, rotate_deg, scale_factor) = returned

C4_Witness ==
    /\ TwoPolygonsRotatedAndScaled
    /\ p_op = "project"
    /\ proj_geodata = <<UnitSquare, TriangleWithHole>>
    /\ rotate_deg = 90
    /\ scale_factor = RInt(2)

\* the vertices of a closed ring, each once
VerticesOnce(r) == SubSeq(r, 1, Len(r) - 1)

VertexMean(polygons) ==
    LET vs == Flatten([i \in 1..Len(polygons) |->
                          VerticesOnce(ExteriorCoords(polygons[i].geometry))])
    IN <<RDiv(RSum([i \in 1..Len(vs) |-> vs[i][1]]), RInt(Len(vs))),
         RDiv(RSum([i \in 1..Len(vs) |-> vs[i][2]]), RInt(Len(vs)))>>

\* C5: the centroid used for recentring is the unweighted mean of the
\* vertices of the exterior rings of the polygons, each vertex counted once;
\* for the unit square it is (1/2, 1/2).
C5_CentroidIsVertexMean ==
    (p_op \in {"project", "transform_to_localized_coordinate_system"}
     /\ p_outcome = "ok") =>
        /\ center = VertexMean(utm_polygons)
        /\ (p_op = "transform_to_localized_coordinate_system"
            /\ proj_geodata = <<UnitSquare>>) => center = <<<<1, 2>>, <<1, 2>>>>

Floor(a) == a[1] \div a[2]

Clamp(n, lo, hi) == IF n < lo THEN lo ELSE IF n > hi THEN hi ELSE n

\* C6: for an average centroid longitude L in [-180, 180] the zone number
\* handed to the geodetic transform is floor((L + 180) / 6) + 1 clamped to
\* [1, 60], so it lies between 1 and 60, also for L = 180.
C6_ZoneClamped ==
    zone_status # "none" =>
        /\ zone = Clamp(Floor(RDiv(RAdd(average_longitude, RInt(180)), RInt(6))) + 1,
                        1, 60)
        /\ zone \in 1..60

\* the Polygon-type features of a collection, in the collection's order
RECURSIVE PolygonFeatures(_)
PolygonFeatures(c) ==
    IF Len(c) = 0 THEN <<>>
    ELSE (IF Head(c).geometry.type = "Polygon" THEN <<Head(c)>> ELSE <<>>)
         \o PolygonFeatures(Tail(c))

\* C9: project() returns one (geometry, properties) pair for each
\* Polygon-type feature of the input and for no other feature, in the order
\* of those features in the collection; the i-th pair has the properties
\* (and as many rings as) the i-th Polygon-type feature; the same list is
\* stored in projected_polygons.
C9_OutputShape ==
    (p_op = "project" /\ p_outcome = "ok") =>
        /\ Len(returned) = Len(PolygonFeatures(proj_geodata))
        /\ \A i \in 1..Len(returned) :
              /\ returned[i].properties = PolygonFeatures(proj_geodata)[i].properties
              /\ Len(returned[i].geometry)
                    = Len(PolygonFeatures(proj_geodata)[i].geometry.coordinates.s)
        /\ projected_polygons = Polygons(returned)

C9_Witness ==
    /\ p_op = "project"
    /\ p_outcome = "ok"
    /\ Len(proj_geodata) = 2
    /\ Len(returned) = 2
    /\ returned[1].properties # returned[2].properties

\* C10: on a collection without Polygon-type features projected_polygons is
\* None, project() fails and returns nothing, and plot() and
\* cast_to_geojson() fail; also after set_new_geodata() replaced a projected
\* collection.
C10_EmptyEligibleSet ==
    PolygonFeatures(proj_geodata) = <<>> =>
        /\ projected_polygons = NoPolygons
        /\ p_op \in {"project", "plot", "cast_to_geojson"} => p_outcome = "ValueError"
        /\ p_op = "project" => returned = <<>>

C10_Witness ==
    /\ proj_geodata = <<MultiPolygonFeature, PointFeature>>
    /\ p_op = "cast_to_geojson"
    /\ p_outcome = "ValueError"
    /\ projected_polygons = NoPolygons

====
